---- MODULE Spec2Model ----
(***************************************************************************)
(* Session-scoped transport multiplexer of createStreamableHTTPServer      *)
(* (src/McpStreamableAuth/src/lib/streamable-http.ts).                     *)
(*                                                                         *)
(* The module models the registry `transports`, the four route handlers    *)
(* (GET /health, POST /mcp, GET /mcp, DELETE /mcp) and the two callbacks   *)
(* the handlers install on a Transport (onsessioninitialized, onclose).    *)
(* A handler runs atomically up to its `await transport.handleRequest`;    *)
(* what the Transport does with a delegated request happens in later       *)
(* steps, interleaved with other handlers.  The Transport itself is the    *)
(* state machine UNBOUND -> BOUND -> CLOSED of the specification.          *)
(***************************************************************************)
EXTENDS Integers, FiniteSets, Bags

VARIABLES
    transports,     \* line 90: the registry, own keys only (0 = no entry)
    nT,             \* number of Transports constructed so far (line 117)
    sessionId,      \* transport.sessionId of each Transport (None until bound)
    closed,         \* closed flag of each Transport
    pendingStream,  \* whether each Transport has an open push channel
    inflight,       \* requests delegated to a Transport and not yet answered
    issued,         \* the values randomUUID() has returned so far
    last            \* the step just taken: request, Transport, response

vars == <<transports, nT, sessionId, closed, pendingStream, inflight, issued, last>>

\* ----------------------------------------------------------------- bounds
MaxTransports == 2
MaxInFlight == 2
\* One id value per Transport that can be constructed.
MaxIds == MaxTransports

\* ------------------------------------------------------------ value space
\* req.headers['mcp-session-id'] is undefined when the header is absent.
None == 0
\* The header sent with an empty value: the string '' (falsy in line 112/115).
EmptyHdr == -1
\* A header naming a property every plain object inherits from
\* Object.prototype, such as 'constructor' or 'toString'.
ProtoKey == -2
\* What transports['constructor'] evaluates to: a truthy value that is no
\* Transport and has no handleRequest method.
ProtoValue == -1

Ids == 1 .. MaxIds
TransportIds == 1 .. MaxTransports
HeaderVals == Ids \cup {None, EmptyHdr, ProtoKey}
Bodies == {"none", "init", "other"}
Requests ==
    [method : {"POST"}, hdr : HeaderVals, body : Bodies]
        \cup [method : {"GET", "DELETE"}, hdr : HeaderVals, body : {"none"}]

NoReq == [method |-> "-", hdr |-> None, body |-> "none"]

\* ------------------------------------------------------- pure definitions
\* JavaScript truthiness of the header value (lines 112, 115, 160).
Truthy(h) == h # None /\ h # EmptyHdr

\* A lookup that ignores the header and returns the first registered Transport.
LookupFirst(reg, h) ==
    IF h \in Ids /\ \E k \in Ids : reg[k] # 0
    THEN reg[CHOOSE k \in Ids : reg[k] # 0 /\ \A j \in Ids : reg[j] # 0 => k <= j]
    ELSE IF h = ProtoKey THEN ProtoValue
    ELSE 0

\* A lookup that answers from an earlier reading of the map: it still finds
\* the Transport that was stored under the id after its entry was deleted.
LookupStale(reg, h) ==
    IF h \in Ids
    THEN IF reg[h] # 0 THEN reg[h]
         ELSE IF \E t \in 1 .. nT : sessionId[t] = h
              THEN CHOOSE t \in 1 .. nT : sessionId[t] = h
              ELSE 0
    ELSE IF h = ProtoKey THEN ProtoValue
    ELSE 0

\* transports[sessionId] on the plain object of line 90: an own key gives the
\* registered Transport, an inherited key gives the inherited value, anything
\* else gives undefined (0).
Lookup(reg, h) ==
    IF h \in Ids THEN reg[h]
    ELSE IF h = ProtoKey THEN ProtoValue
    ELSE 0

\* Object.keys(transports): own enumerable keys (line 97).
OwnKeys(reg) == {id \in Ids : reg[id] # 0}

\* The test without the comparison of the method: any body passes.
IsInitializeAnyBody(body) == body # "none"

\* req.body && req.body.method === 'initialize' (line 115).
IsInitialize(body) == body = "init"

\* Transport states of the specification.
UNBOUND(t) == t \in 1 .. nT /\ ~closed[t] /\ sessionId[t] = None
BOUND(t) == t \in 1 .. nT /\ ~closed[t] /\ sessionId[t] # None
CLOSED(t) == t \in 1 .. nT /\ closed[t]

\* The three branches with the test of the body placed first.
PostBranchCreateFirst(reg, req) ==
    IF IsInitialize(req.body) THEN "create"
    ELSE IF Truthy(req.hdr) /\ Lookup(reg, req.hdr) # 0 THEN "reuse"
    ELSE "reject"

\* The branch POST /mcp takes (lines 112-148).
PostBranch(reg, req) ==
    IF Truthy(req.hdr) /\ Lookup(reg, req.hdr) # 0 THEN "reuse"
    ELSE IF ~Truthy(req.hdr) /\ IsInitialize(req.body) THEN "create"
    ELSE "reject"

\* The branch handleSessionRequest takes (lines 160-167).
SessionBranch(reg, req) ==
    IF ~Truthy(req.hdr) \/ Lookup(reg, req.hdr) = 0 THEN "reject"
    ELSE "reuse"

\* A generator that returns one fixed value.
sessionIdGeneratorFixed(uuid) == 1

\* sessionIdGenerator: () => randomUUID() (line 118).
sessionIdGenerator(uuid) == uuid

\* A generator that may return a value it has returned before.
randomUUIDRepeating == Ids

\* randomUUID(): the values a version 4 UUID generator can return next; it
\* does not return a value twice.
randomUUID == Ids \ issued

\* A callback that does not store the Transport.
OnSessionInitializedNoStore(reg, id, t) == reg

\* A callback that replaces the map by one holding the new entry alone.
OnSessionInitializedReset(reg, id, t) == [k \in DOMAIN reg |-> IF k = id THEN t ELSE 0]

\* onsessioninitialized (lines 119-125): transports[sessionId] = transport.
OnSessionInitialized(reg, id, t) == [reg EXCEPT ![id] = t]

\* A close callback that empties the whole map.
OnCloseAll(reg, sid) == [id \in DOMAIN reg |-> 0]

\* A close callback that leaves the entry in place.
OnCloseNoDelete(reg, sid) == reg

\* transport.onclose (lines 129-133).
OnClose(reg, sid) == IF sid # None THEN [reg EXCEPT ![sid] = 0] ELSE reg

\* A count of the sessions ever created, never decremented.
ActiveSessionsCreated(reg) == Cardinality(issued)

\* activeSessions of GET /health (line 97).
ActiveSessions(reg) == Cardinality(OwnKeys(reg))

\* Whether one more request may be in flight.
HasRoom == BagCardinality(inflight) < MaxInFlight

Ev(kind, req, tr, status, code, outHdr, count) ==
    [kind |-> kind, req |-> req, tr |-> tr, status |-> status, code |-> code,
     outHdr |-> outHdr, count |-> count]

\* ------------------------------------------------------------------- Init
Init ==
    /\ transports = [id \in Ids |-> 0]
    /\ nT = 0
    /\ sessionId = [t \in TransportIds |-> None]
    /\ closed = [t \in TransportIds |-> FALSE]
    /\ pendingStream = [t \in TransportIds |-> FALSE]
    /\ inflight = EmptyBag
    /\ issued = {}
    /\ last = Ev("start", NoReq, 0, 0, 0, None, 0)


\* --------------------------------------------------------------- handlers
StatusBadRequest == 400
JsonRpcErrorCode == -32000

\* Hand a request to transport.handleRequest (lines 150, 167): the handler
\* suspends at the await and the Transport answers in a later step.
Delegate(req, t) ==
    inflight' = inflight (+)
        SetToBag({[phase |-> "delegated", method |-> req.method, tr |-> t]})

\* GET /health (lines 93-101).
Health ==
    /\ last' = Ev("health", [method |-> "GET", hdr |-> None, body |-> "none"],
                  0, 200, 0, None, ActiveSessions(transports))
    /\ UNCHANGED <<transports, nT, sessionId, closed, pendingStream, inflight, issued>>

\* POST /mcp, lines 112-114 and 150: an entry is found under the header.
PostReuse(req) ==
    /\ PostBranch(transports, req) = "reuse"
    /\ Lookup(transports, req.hdr) \in TransportIds
    /\ HasRoom
    /\ Delegate(req, Lookup(transports, req.hdr))
    /\ last' = Ev("delegate", req, Lookup(transports, req.hdr), 0, 0, None, 0)
    /\ UNCHANGED <<transports, nT, sessionId, closed, pendingStream, issued>>

\* Lines 112-114 and 150 when the value found is inherited from
\* Object.prototype: transport.handleRequest is undefined and the call throws
\* a TypeError.  The handler's promise rejects: the framework answers 500 or
\* leaves the request unanswered (status 0).
ThrowTypeError(req) ==
    /\ Lookup(transports, req.hdr) = ProtoValue
    /\ \E st \in {0, 500} : last' = Ev("throw", req, 0, st, 0, None, 0)
    /\ UNCHANGED <<transports, nT, sessionId, closed, pendingStream, inflight, issued>>

\* POST /mcp, lines 115-136 and 150: a new Transport is constructed with its
\* callbacks, connected to the server and handed the request.
PostCreate(req) ==
    /\ PostBranch(transports, req) = "create"
    /\ nT < MaxTransports
    /\ HasRoom
    /\ nT' = nT + 1
    /\ Delegate(req, nT + 1)
    /\ last' = Ev("create", req, nT + 1, 0, 0, None, 0)
    /\ UNCHANGED <<transports, sessionId, closed, pendingStream, issued>>

\* POST /mcp, lines 137-148.
PostReject(req) ==
    /\ PostBranch(transports, req) = "reject"
    /\ last' = Ev("reject", req, 0, StatusBadRequest, JsonRpcErrorCode, None, 0)
    /\ UNCHANGED <<transports, nT, sessionId, closed, pendingStream, inflight, issued>>

PostMcp(req) ==
    /\ req.method = "POST"
    /\ \/ PostReuse(req)
       \/ PostBranch(transports, req) = "reuse" /\ ThrowTypeError(req)
       \/ PostCreate(req)
       \/ PostReject(req)

\* handleSessionRequest (lines 157-168), GET /mcp and DELETE /mcp.
SessionReject(req) ==
    /\ SessionBranch(transports, req) = "reject"
    /\ last' = Ev("reject", req, 0, StatusBadRequest, 0, None, 0)
    /\ UNCHANGED <<transports, nT, sessionId, closed, pendingStream, inflight, issued>>

SessionReuse(req) ==
    /\ SessionBranch(transports, req) = "reuse"
    /\ Lookup(transports, req.hdr) \in TransportIds
    /\ HasRoom
    /\ Delegate(req, Lookup(transports, req.hdr))
    /\ last' = Ev("delegate", req, Lookup(transports, req.hdr), 0, 0, None, 0)
    /\ UNCHANGED <<transports, nT, sessionId, closed, pendingStream, issued>>

handleSessionRequest(req) ==
    /\ req.method \in {"GET", "DELETE"}
    /\ \/ SessionReject(req)
       \/ SessionReuse(req)
       \/ SessionBranch(transports, req) = "reuse" /\ ThrowTypeError(req)

\* -------------------------------------------------------------- Transport
\* BOUND -> CLOSED (or UNBOUND -> CLOSED): the flag is set, the push channel
\* released and the onclose callback of lines 129-133 runs.
Close(t) ==
    /\ closed' = [closed EXCEPT ![t] = TRUE]
    /\ pendingStream' = [pendingStream EXCEPT ![t] = FALSE]
    /\ transports' = OnClose(transports, sessionId[t])

Release(s) == inflight' = inflight (-) SetToBag({s})

\* The request a Transport step answers, as far as the Transport step reads it.
Answered(s) == [method |-> s.method, hdr |-> None, body |-> "none"]

\* A callback that forgets to set the response header.
SessionHeaderMissing(id) == None

\* A callback that answers with the lowest id instead of the one it was given.
SessionHeaderLowest(id) == 1

\* res.setHeader('mcp-session-id', sessionId) (line 124).
SessionHeader(id) == id

\* UNBOUND -> BOUND: the handshake of the creation request succeeds; the id
\* is generated and onsessioninitialized (lines 119-125) runs.
HandshakeOK(s, uuid) ==
    LET t == s.tr
        id == sessionIdGenerator(uuid)
    IN  /\ s.phase = "delegated"
        /\ s.method = "POST"
        /\ UNBOUND(t)
        /\ sessionId' = [sessionId EXCEPT ![t] = id]
        /\ transports' = OnSessionInitialized(transports, id, t)
        /\ issued' = issued \cup {uuid}
        /\ Release(s)
        /\ last' = Ev("bound", Answered(s), t, 200, 0, SessionHeader(id), 0)
        /\ UNCHANGED <<nT, closed, pendingStream>>

\* The handshake fails: the Transport closes without ever being bound.
HandshakeFail(s) ==
    LET t == s.tr
    IN  /\ s.phase = "delegated"
        /\ s.method = "POST"
        /\ UNBOUND(t)
        /\ Close(t)
        /\ Release(s)
        /\ last' = Ev("handshakeFailed", Answered(s), t, StatusBadRequest, 0, None, 0)
        /\ UNCHANGED <<nT, sessionId, issued>>

\* An engine entry that does not wait for the invocation in progress.
EngineStartUnserialized(s) ==
    LET t == s.tr
    IN  /\ s.phase = "delegated"
        /\ s.method = "POST"
        /\ BOUND(t)
        /\ inflight' = (inflight (-) SetToBag({s}))
                            (+) SetToBag({[s EXCEPT !.phase = "engine"]})
        /\ last' = Ev("engineStart", Answered(s), t, 0, 0, None, 0)
        /\ UNCHANGED <<transports, nT, sessionId, closed, pendingStream, issued>>

\* handleUnaryRequest: the protocol engine is entered, one invocation per
\* Transport at a time.
EngineStart(s) ==
    LET t == s.tr
    IN  /\ s.phase = "delegated"
        /\ s.method = "POST"
        /\ BOUND(t)
        /\ \A u \in BagToSet(inflight) : ~(u.phase = "engine" /\ u.tr = t)
        /\ inflight' = (inflight (-) SetToBag({s}))
                            (+) SetToBag({[s EXCEPT !.phase = "engine"]})
        /\ last' = Ev("engineStart", Answered(s), t, 0, 0, None, 0)
        /\ UNCHANGED <<transports, nT, sessionId, closed, pendingStream, issued>>

\* The engine returns its result.
EngineOK(s) ==
    LET t == s.tr
    IN  /\ s.phase = "engine"
        /\ ~closed[t]
        /\ Release(s)
        /\ last' = Ev("unaryOK", Answered(s), t, 200, 0, None, 0)
        /\ UNCHANGED <<transports, nT, sessionId, closed, pendingStream, issued>>

\* The engine signals a fatal error: BOUND -> CLOSED.
EngineFatal(s) ==
    LET t == s.tr
    IN  /\ s.phase = "engine"
        /\ ~closed[t]
        /\ Close(t)
        /\ Release(s)
        /\ last' = Ev("engineFatal", Answered(s), t, 500, 0, None, 0)
        /\ UNCHANGED <<nT, sessionId, issued>>

\* A request that reaches a Transport after it closed: SessionClosed.
RejectClosed(s) ==
    LET t == s.tr
    IN  /\ s.phase \in {"delegated", "engine"}
        /\ CLOSED(t)
        /\ Release(s)
        /\ last' = Ev("sessionClosed", Answered(s), t, StatusBadRequest, 0, None, 0)
        /\ UNCHANGED <<transports, nT, sessionId, closed, pendingStream, issued>>

\* A Transport that accepts a second push channel in place of the open one.
OpenPushChannelReplace(s) ==
    LET t == s.tr
    IN  /\ s.phase = "delegated"
        /\ s.method = "GET"
        /\ BOUND(t)
        /\ Release(s)
        /\ last' = Ev("pushOpen", Answered(s), t, 200, 0, None, 0)
        /\ pendingStream' = [pendingStream EXCEPT ![t] = TRUE]
        /\ UNCHANGED <<transports, nT, sessionId, closed, issued>>

\* openPushChannel (GET /mcp on a BOUND Transport).
OpenPushChannel(s) ==
    LET t == s.tr
    IN  /\ s.phase = "delegated"
        /\ s.method = "GET"
        /\ BOUND(t)
        /\ Release(s)
        /\ IF pendingStream[t]
           THEN /\ last' = Ev("channelAlreadyOpen", Answered(s), t,
                              StatusBadRequest, 0, None, 0)
                /\ UNCHANGED pendingStream
           ELSE /\ last' = Ev("pushOpen", Answered(s), t, 200, 0, None, 0)
                /\ pendingStream' = [pendingStream EXCEPT ![t] = TRUE]
        /\ UNCHANGED <<transports, nT, sessionId, closed, issued>>

\* terminate (DELETE /mcp on a BOUND Transport).
Terminate(s) ==
    LET t == s.tr
    IN  /\ s.phase = "delegated"
        /\ s.method = "DELETE"
        /\ BOUND(t)
        /\ Close(t)
        /\ Release(s)
        /\ last' = Ev("terminated", Answered(s), t, 200, 0, None, 0)
        /\ UNCHANGED <<nT, sessionId, issued>>

\* The client of the push channel disconnects: BOUND -> CLOSED.
ConnectionDrop(t) ==
    /\ BOUND(t)
    /\ pendingStream[t]
    /\ Close(t)
    /\ last' = Ev("connectionDrop", NoReq, t, 0, 0, None, 0)
    /\ UNCHANGED <<nT, sessionId, inflight, issued>>

\* A second cleanup of a Transport that has closed already (its close runs
\* again, from the close callback and from an explicit termination): the
\* onclose callback of lines 129-133 runs once more.
CloseAgain(t) ==
    /\ CLOSED(t)
    /\ transports' = OnClose(transports, sessionId[t])
    /\ last' = Ev("closeAgain", NoReq, t, 0, 0, None, 0)
    /\ UNCHANGED <<nT, sessionId, closed, pendingStream, inflight, issued>>

\* ---------------------------------------------------------- specification
Common ==
    \/ Health
    \/ \E req \in Requests : PostMcp(req)
    \/ \E req \in Requests : handleSessionRequest(req)
    \/ \E s \in BagToSet(inflight) : HandshakeFail(s)
    \/ \E s \in BagToSet(inflight) : EngineStart(s)
    \/ \E s \in BagToSet(inflight) : EngineOK(s)
    \/ \E s \in BagToSet(inflight) : EngineFatal(s)
    \/ \E s \in BagToSet(inflight) : RejectClosed(s)
    \/ \E s \in BagToSet(inflight) : OpenPushChannel(s)
    \/ \E s \in BagToSet(inflight) : Terminate(s)
    \/ \E t \in TransportIds : ConnectionDrop(t)
    \/ \E t \in TransportIds : CloseAgain(t)

\* The program with randomUUID() honouring its contract.
Next ==
    \/ Common
    \/ \E s \in BagToSet(inflight) : \E uuid \in randomUUID : HandshakeOK(s, uuid)

Spec == Init /\ [][Next]_vars

\* The program with a generator that may repeat a value.
NextDup ==
    \/ Common
    \/ \E s \in BagToSet(inflight) : \E uuid \in Ids : HandshakeOK(s, uuid)

SpecDup == Init /\ [][NextDup]_vars

\* ================================================================= claims
HandlerKinds == {"create", "delegate", "reject", "throw"}
Bound == {t \in 1 .. nT : BOUND(t)}
Registered == {transports[id] : id \in OwnKeys(transports)}
\* The step was POST /mcp handling a request.
PostHandled == last.kind \in HandlerKinds /\ last.req.method = "POST"
\* The step was handleSessionRequest handling a request.
SessionHandled == last.kind \in HandlerKinds /\ last.req.method \in {"GET", "DELETE"}
RegistryFrame == UNCHANGED <<transports, nT, sessionId, closed, pendingStream, inflight, issued>>

\* C1: a POST /mcp without session-id header and with an initialize body
\* constructs a new Transport and hands it the request; when the handshake
\* succeeds that Transport gets an id never issued before, is stored in the
\* registry under it, and the response carries the id in mcp-session-id.
C1_Step ==
    /\ (PostHandled' /\ last'.req.hdr = None /\ last'.req.body = "init")
        => /\ last'.kind = "create"
           /\ nT' = nT + 1
           /\ last'.tr = nT'
           /\ sessionId'[nT'] = None /\ ~closed'[nT']
           /\ BagIn([phase |-> "delegated", method |-> "POST", tr |-> nT'], inflight')
           /\ transports' = transports
    /\ last'.kind = "bound"
        => LET t == last'.tr
               id == sessionId'[t]
           IN  /\ UNBOUND(t)
               /\ BagIn([phase |-> "delegated", method |-> "POST", tr |-> t], inflight)
               /\ id \in Ids \ issued
               /\ transports[id] = 0
               /\ transports'[id] = t
               /\ ~closed'[t]
               /\ last'.status = 200
               /\ last'.outHdr = id
\* C1: every step satisfies C1_Step (creation constructs a Transport; a
\* successful handshake binds, registers and returns the new id).
C1_CreateBindsAndReturnsId == [][C1_Step]_vars
C1_Witness ==
    /\ last.kind = "bound"
    /\ last.outHdr \in Ids
    /\ transports[last.outHdr] = last.tr
    /\ sessionId[last.tr] = last.outHdr

\* C2: a POST /mcp carrying the id of a bound session is handed to the
\* Transport that was bound to that id, never to another Transport and never
\* to a new one, whatever other sessions were created or terminated.
C2_ReuseReachesOwnTransport ==
    \A t \in Bound :
        (PostHandled /\ last.req.hdr = sessionId[t])
            => /\ last.kind = "delegate"
               /\ last.tr = t
               /\ BagIn([phase |-> "delegated", method |-> "POST", tr |-> t], inflight)
C2_Witness ==
    /\ PostHandled /\ last.kind = "delegate"
    /\ last.tr \in Bound /\ sessionId[last.tr] = last.req.hdr
    /\ \E u \in 1 .. nT : u # last.tr /\ sessionId[u] # None

\* C3 (as claimed): a POST /mcp whose header names an id that is not in the
\* registry is answered 400 with JSON-RPC error -32000, whatever its body.
C3_UnknownIdRejected ==
    (PostHandled /\ Truthy(last.req.hdr) /\ last.req.hdr \notin OwnKeys(transports))
        => /\ last.kind = "reject"
           /\ last.status = StatusBadRequest
           /\ last.code = JsonRpcErrorCode

\* C4: a POST /mcp without session-id header whose body is no initialize
\* message (or is absent) is answered 400 with JSON-RPC error -32000; no
\* Transport is constructed and the registry is unchanged.
C4_Step ==
    (PostHandled' /\ last'.req.hdr = None /\ last'.req.body # "init")
        => /\ last'.kind = "reject"
           /\ last'.status = StatusBadRequest
           /\ last'.code = JsonRpcErrorCode
           /\ last'.outHdr = None
           /\ RegistryFrame
\* C4: every step satisfies C4_Step (no header and no initialize body is
\* answered 400 / -32000 and changes nothing).
C4_MissingSessionIdRejected == [][C4_Step]_vars
C4_Witness ==
    /\ PostHandled /\ last.kind = "reject"
    /\ last.req.hdr = None /\ last.req.body = "none"
    /\ Bound # {}

\* C5 (as claimed): GET /mcp and DELETE /mcp with an absent or unknown
\* session id are answered 400 and handed to no Transport.
C5_SessionRequestNeedsKnownId ==
    (SessionHandled /\ last.req.hdr \notin OwnKeys(transports))
        => /\ last.kind = "reject"
           /\ last.status = StatusBadRequest

\* C6: once the Transport of session X has closed (terminated or closed on a
\* fatal engine error), every later POST, GET or DELETE carrying X is
\* answered 400 by the handler and is handed to no Transport.
C6_ClosedSessionIsUnknown ==
    \A t \in 1 .. nT :
        (closed[t] /\ sessionId[t] # None
            /\ last.kind \in HandlerKinds /\ last.req.hdr = sessionId[t])
            => /\ last.kind = "reject"
               /\ last.status = StatusBadRequest
C6_Witness ==
    /\ last.kind = "reject"
    /\ \E t \in 1 .. nT : closed[t] /\ sessionId[t] # None /\ last.req.hdr = sessionId[t]
    /\ Bound # {}

\* C7: invariant I2: a Transport is a value of the registry exactly when it
\* is not closed and its sessionId is set, and it is stored under that id.
C7_RegisteredIffBound ==
    /\ \A t \in 1 .. nT : (t \in Registered) <=> BOUND(t)
    /\ \A id \in OwnKeys(transports) :
        transports[id] \in 1 .. nT /\ sessionId[transports[id]] = id
C7_Witness ==
    /\ \E t \in 1 .. nT : BOUND(t) /\ t \in Registered
    /\ \E t \in 1 .. nT : closed[t] /\ sessionId[t] # None /\ t \notin Registered

\* C8: activeSessions of GET /health is the number of Transports that are
\* BOUND when it is served, and serving it changes nothing.
C8_Step ==
    last'.kind = "health"
        => /\ last'.count = Cardinality(Bound)
           /\ last'.status = 200
           /\ RegistryFrame
\* C8: every step satisfies C8_Step (GET /health reports the number of BOUND
\* Transports and changes nothing).
C8_HealthCountsBound == [][C8_Step]_vars
C8_Witness ==
    /\ last.kind = "health"
    /\ last.count = 1
    /\ \E t \in 1 .. nT : closed[t] /\ sessionId[t] # None
    /\ inflight # EmptyBag

\* C9 (as claimed): an entry of the registry is never overwritten by a
\* different Transport.
C9_Step ==
    \A id \in Ids :
        (transports[id] # 0 /\ transports'[id] # 0) => transports'[id] = transports[id]
\* C9 (as claimed): every step satisfies C9_Step (no registry entry is
\* overwritten by a different Transport).
C9_NoOverwrite == [][C9_Step]_vars

\* C10: no two Transports are ever bound to the same id, every id a Transport
\* holds was returned by the server's generator, and a request that creates
\* a session carries no session id.
C10_IssuedIdsDistinct ==
    /\ \A t, u \in 1 .. nT :
        (t # u /\ sessionId[t] # None /\ sessionId[u] # None)
            => sessionId[t] # sessionId[u]
    /\ \A t \in 1 .. nT : sessionId[t] # None => sessionId[t] \in issued
    /\ last.kind = "create" => ~Truthy(last.req.hdr)
    /\ last.kind = "bound" => last.outHdr \in issued
C10_Witness ==
    /\ last.kind = "bound"
    /\ last.tr = 1
    /\ sessionId[2] # None
    /\ sessionId[1] # sessionId[2]

\* C11: eviction is idempotent: when the close callback runs a second time
\* for a Transport that has closed already, nothing fails and the registry
\* stays exactly as the first eviction left it.
C11_Step ==
    last'.kind = "closeAgain"
        => /\ closed[last'.tr]
           /\ transports' = transports
           /\ (sessionId[last'.tr] # None => transports'[sessionId[last'.tr]] = 0)
\* C11: every step satisfies C11_Step (a second eviction changes nothing).
C11_EvictIdempotent == [][C11_Step]_vars
C11_Witness ==
    /\ last.kind = "closeAgain"
    /\ sessionId[last.tr] # None
    /\ transports[sessionId[last.tr]] = 0
    /\ Bound # {}

\* Requests of Transport t inside the engine, and delegated but not yet in it.
InEngine(t) == CopiesIn([phase |-> "engine", method |-> "POST", tr |-> t], inflight)
Waiting(t) == CopiesIn([phase |-> "delegated", method |-> "POST", tr |-> t], inflight)
\* C12: of the POST /mcp requests in flight for one session at most one is
\* inside the protocol engine at any time; a second one for the same session
\* waits, while requests of other sessions are not held back by it.
C12_EngineSerializedPerSession ==
    /\ \A t \in TransportIds : InEngine(t) <= 1
    /\ \A t \in Bound :
        (Waiting(t) > 0 /\ InEngine(t) = 0)
            => ENABLED EngineStart([phase |-> "delegated", method |-> "POST", tr |-> t])
C12_Witness ==
    \E t \in Bound : InEngine(t) = 1 /\ Waiting(t) = 1

\* C13: a Transport whose handshake fails, or whose engine fails fatally
\* while it is bound, is CLOSED after that step and the registry holds
\* neither the Transport nor an entry under its id.
C13_FailedTransportClosedAndEvicted ==
    last.kind \in {"handshakeFailed", "engineFatal"}
        => /\ CLOSED(last.tr)
           /\ last.tr \notin Registered
           /\ (sessionId[last.tr] # None => transports[sessionId[last.tr]] = 0)
           /\ (last.kind = "handshakeFailed" => sessionId[last.tr] = None)
           /\ ~pendingStream[last.tr]
C13_Witness ==
    /\ last.kind = "engineFatal"
    /\ sessionId[last.tr] # None
    /\ transports[sessionId[last.tr]] = 0
    /\ Bound # {}

\* C14: a response carries the session-id header only when its request is
\* the creation request that has just bound a session, and then the header is
\* the id minted in that step, an id no earlier response has carried; every
\* binding response carries it. Responses of requests the handlers route to
\* an existing session, reject or fail on carry no session-id header.
C14_Step ==
    /\ last'.outHdr # None
           => /\ last'.kind = "bound"
              /\ last'.req.method = "POST"
              /\ sessionId[last'.tr] = None
              /\ sessionId'[last'.tr] = last'.outHdr
              /\ last'.outHdr \notin issued
              /\ transports'[last'.outHdr] = last'.tr
    /\ last'.kind = "bound" => last'.outHdr # None
    /\ last'.kind \in HandlerKinds => last'.outHdr = None
C14_HeaderOnlyOnCreation == [][C14_Step]_vars
C14_Witness ==
    /\ last.kind = "bound"
    /\ last.outHdr = 2
    /\ sessionId[last.tr] = 2
    /\ transports[1] # 0

\* C15: a GET /mcp that reaches a BOUND Transport with a push channel open
\* is answered ChannelAlreadyOpen (status 400) and leaves every Transport's
\* pendingStream as it was, the open channel included; a push channel is
\* opened only on a BOUND Transport that has none, so a Transport has at most
\* one.
C15_Step ==
    /\ last'.kind = "channelAlreadyOpen"
           => /\ last'.req.method = "GET"
              /\ last'.status = StatusBadRequest
              /\ pendingStream[last'.tr]
              /\ pendingStream' = pendingStream
              /\ BOUND(last'.tr)
              /\ ~closed'[last'.tr]
    /\ last'.kind = "pushOpen"
           => /\ last'.req.method = "GET"
              /\ BOUND(last'.tr)
              /\ ~pendingStream[last'.tr]
              /\ pendingStream' = [pendingStream EXCEPT ![last'.tr] = TRUE]
    /\ \A t \in TransportIds :
           (~pendingStream[t] /\ pendingStream'[t])
               => (last'.kind = "pushOpen" /\ last'.tr = t)
C15_ChannelAlreadyOpen == [][C15_Step]_vars
C15_Witness ==
    /\ last.kind = "channelAlreadyOpen"
    /\ pendingStream[last.tr]
    /\ BOUND(last.tr)

\* C16: a POST /mcp whose header is a registered id and whose body is an
\* initialize message is handed to the Transport registered under that id;
\* the step constructs no Transport, mints no id and leaves the registry and
\* every Transport's id as they were.
C16_Step ==
    (PostHandled' /\ last'.req.body = "init" /\ last'.req.hdr \in OwnKeys(transports))
        => /\ last'.kind = "delegate"
           /\ last'.tr = transports[last'.req.hdr]
           /\ nT' = nT
           /\ issued' = issued
           /\ transports' = transports
           /\ sessionId' = sessionId
           /\ inflight' = inflight (+) SetToBag({[phase |-> "delegated",
                                                  method |-> "POST",
                                                  tr |-> transports[last'.req.hdr]]})
C16_KnownIdWinsOverInitialize == [][C16_Step]_vars
C16_Witness ==
    /\ last.kind = "delegate"
    /\ last.req.method = "POST"
    /\ last.req.body = "init"
    /\ last.req.hdr \in OwnKeys(transports)
    /\ transports[last.req.hdr] = last.tr
    /\ nT < MaxTransports

\* C17: the lifecycle of a Transport only moves forward. A closed Transport
\* stays closed, an id once assigned is never changed, a Transport enters the
\* registry only in the step that binds it, answering its own creation request
\* while it is UNBOUND, and after a Transport is closed neither it nor its id
\* is in the registry again.
C17_Step ==
    \A t \in TransportIds :
        /\ closed[t] => closed'[t]
        /\ sessionId[t] # None => sessionId'[t] = sessionId[t]
        /\ (t \notin Registered /\ t \in Registered')
               => /\ last'.kind = "bound"
                  /\ last'.tr = t
                  /\ last'.req.method = "POST"
                  /\ UNBOUND(t)
        /\ closed[t] => t \notin Registered'
        /\ (closed[t] /\ sessionId[t] # None) => transports'[sessionId[t]] = 0
C17_LifecycleMonotonic == [][C17_Step]_vars
C17_Witness ==
    /\ last.kind = "bound"
    /\ \E t \in 1 .. nT :
           /\ t # last.tr
           /\ CLOSED(t)
           /\ sessionId[t] # None
           /\ transports[sessionId[t]] = 0

\* The steps that close a Transport or run its close callback again.
ClosingKinds ==
    {"terminated", "engineFatal", "connectionDrop", "handshakeFailed", "closeAgain"}

\* C18: the step that binds a session adds one entry to the registry, under
\* the new id and holding the new Transport, and changes no other entry; a
\* step that closes a Transport changes at most the entry under that
\* Transport's own id, which it empties, and changes nothing when the
\* Transport has no id; constructing and connecting a Transport, and every
\* other step, leave the registry as it was.
C18_Step ==
    /\ last'.kind = "bound"
           => /\ sessionId'[last'.tr] \in Ids
              /\ transports[sessionId'[last'.tr]] = 0
              /\ transports' = [transports EXCEPT ![sessionId'[last'.tr]] = last'.tr]
              /\ OwnKeys(transports') = OwnKeys(transports) \cup {sessionId'[last'.tr]}
    /\ last'.kind \in ClosingKinds
           => /\ closed'[last'.tr]
              /\ IF sessionId[last'.tr] = None
                 THEN transports' = transports
                 ELSE /\ transports' = [transports EXCEPT ![sessionId[last'.tr]] = 0]
                      /\ OwnKeys(transports') = OwnKeys(transports) \ {sessionId[last'.tr]}
    /\ last'.kind \notin ({"bound"} \cup ClosingKinds) => transports' = transports
C18_RegistryIsolation == [][C18_Step]_vars
C18_Witness ==
    /\ last.kind = "terminated"
    /\ sessionId[last.tr] # None
    /\ transports[sessionId[last.tr]] = 0
    /\ \E t \in Bound : t # last.tr /\ transports[sessionId[t]] = t

\* C19: a handler looks the session up and starts the delegation in one
\* step, so whenever a looked-up request is handed to a Transport, that
\* Transport is BOUND and stored under the request's id both before and after
\* the step, and the request is in flight on it after the step; a close of the
\* Transport can only come in a later step, with the request already
\* delegated.
C19_Step ==
    last'.kind = "delegate"
        => /\ last'.req.hdr \in OwnKeys(transports)
           /\ transports[last'.req.hdr] = last'.tr
           /\ BOUND(last'.tr)
           /\ transports'[last'.req.hdr] = last'.tr
           /\ ~closed'[last'.tr]
           /\ sessionId'[last'.tr] = last'.req.hdr
           /\ CopiesIn([phase |-> "delegated", method |-> last'.req.method,
                        tr |-> last'.tr], inflight') >= 1
C19_LookupAndDelegateAtomic == [][C19_Step]_vars
C19_Witness ==
    /\ last.kind = "terminated"
    /\ CLOSED(last.tr)
    /\ \E m \in {"POST", "GET", "DELETE"} :
           CopiesIn([phase |-> "delegated", method |-> m, tr |-> last.tr], inflight) >= 1

====
